---- MODULE Spec2Model ----
(***************************************************************************)
(* Model of binomialnegativa.py: the corner-kick over/under analyser.      *)
(*                                                                         *)
(* Number representation (all exact, no rounding):                         *)
(*   linha2         the betting line in halves (linha_over = linha2 / 2)   *)
(*   odd_*          decimal odds in hundredths (1.90 is 190)               *)
(*   fator_*        temporal factors in twentieths (the sliders step 0.05) *)
(*   media          full-match mean in hundredths                          *)
(*   lambda values  numerators over 95 * 20 * 100 (the division by         *)
(*                  TEMPO_TOTAL is kept in the common denominator)         *)
(*   probabilities  multiples of 1/ONE                                     *)
(*   EVs            multiples of 1/(ONE * 100), so 0.05 is LIMIAR_EV * ONE *)
(*                                                                         *)
(* scipy.stats.nbinom.pmf is a library routine whose values (for shape 1.5)*)
(* are irrational; it is represented by the table `pmf`, any point mass    *)
(* function on 0..MaxK with non-negative masses of total at most ONE (the  *)
(* rest is the mass above MaxK).  For a mean of 0 the routine is           *)
(* the point mass at 0 (p = n / (n + 0) = 1), which is modelled as such.   *)
(***************************************************************************)
EXTENDS Integers, Sequences, FiniteSets

\* ---------------------------------------------------------------- bounds
MaxEscanteios == 3      \* escanteios_atuais ranges over -1..MaxEscanteios
MaxLinha2 == 5          \* linha2 ranges over 0..MaxLinha2 (lines 0 .. 2.5)
ONE == 4                \* probability resolution: 1.0 is ONE units
MaxMinuto == 96         \* minutos_jogados ranges over -1..MaxMinuto

\* largest k the pmf is ever asked for: floor(linha) + 1 - (-1)
MaxK == (MaxLinha2 \div 2) + 2

\* ------------------------------------------------------------- constants
TEMPO_TOTAL == 95
LIMIAR_EV == 5          \* the 0.05 of the recommendation, in hundredths

VARIABLES
    minutos_jogados,    \* argument / slider value
    escanteios_atuais,  \* argument / number input
    linha2,             \* linha_over in halves
    odd_over,           \* hundredths
    odd_under,          \* hundredths
    media,              \* media_ponderada_jogo, hundredths
    fatores,            \* <<fator_inicio, fator_fim_1t, fator_inicio_2t, fator_fim_jogo>>
    pmf,                \* nbinom.pmf(., 1.5, p) for the projected mean
    pc,                 \* "idle", "rejected" or "done"
    erro,               \* which st.error was shown ("" if none)
    resultados,         \* << >> when no record exists, <<record>> otherwise
    recomendacao        \* "" until shown, then "over", "under" or "evitar"

vars == <<minutos_jogados, escanteios_atuais, linha2, odd_over, odd_under,
          media, fatores, pmf, pc, erro, resultados, recomendacao>>

inputs == <<minutos_jogados, escanteios_atuais, linha2, odd_over, odd_under,
            media, fatores, pmf>>

\* ------------------------------------------------------- rate projection

get_temporal_factor(minuto, fator_inicio, fator_fim_1t, fator_inicio_2t, fator_fim_jogo) ==
    IF minuto <= 35 THEN fator_inicio
    ELSE IF 36 <= minuto /\ minuto <= 45 THEN fator_fim_1t
    ELSE IF 46 <= minuto /\ minuto <= 80 THEN fator_inicio_2t
    ELSE fator_fim_jogo

\* lambda_restante[m] is the accumulator after the loop body ran for minute m;
\* `primeiro` is the first minute of the range.  The base rate
\* lambda_partida / TEMPO_TOTAL keeps its denominator implicit.
soma_taxas(primeiro, lambda_partida, fator_inicio, fator_fim_1t, fator_inicio_2t, fator_fim_jogo) ==
    LET taxa_base_por_minuto == lambda_partida
        lambda_restante[minuto \in (primeiro - 1)..TEMPO_TOTAL] ==
            IF minuto = primeiro - 1 THEN 0
            ELSE lambda_restante[minuto - 1]
                 + taxa_base_por_minuto
                   * get_temporal_factor(minuto, fator_inicio, fator_fim_1t, fator_inicio_2t, fator_fim_jogo)
    IN  IF primeiro > TEMPO_TOTAL THEN 0 ELSE lambda_restante[TEMPO_TOTAL]

calcular_lambda_restante_from_played(minutos, lambda_partida, fator_inicio, fator_fim_1t, fator_inicio_2t, fator_fim_jogo) ==
    soma_taxas(minutos, lambda_partida, fator_inicio, fator_fim_1t, fator_inicio_2t, fator_fim_jogo)

calcular_lambda_restante_time_dependent(minutos, lambda_partida, fator_inicio, fator_fim_1t, fator_inicio_2t, fator_fim_jogo) ==
    soma_taxas(minutos + 1, lambda_partida, fator_inicio, fator_fim_1t, fator_inicio_2t, fator_fim_jogo)

\* ------------------------------------------------ distribution evaluation

\* P(X = k) for mean mu; `tabela` is what nbinom.pmf yields for mu > 0
neg_binomial_prob(k, mu, tabela) ==
    IF k < 0 THEN 0
    ELSE IF mu = 0 THEN (IF k = 0 THEN ONE ELSE 0)
    ELSE tabela[k]

\* prob_under_target after `for k in range(n)`
RECURSIVE soma_prob(_, _, _)
soma_prob(n, mu, tabela) ==
    IF n <= 0 THEN 0
    ELSE soma_prob(n - 1, mu, tabela) + neg_binomial_prob(n - 1, mu, tabela)

\* the `if is_half_line:` branch
prob_meio_ponto_inclusive(target_over, minutos_restantes, mu, tabela) ==
    IF target_over <= 0 THEN [over |-> ONE, push |-> 0, under |-> 0]
    ELSE IF minutos_restantes = 0 THEN [over |-> 0, push |-> 0, under |-> ONE]
    ELSE LET prob_under_target == soma_prob(target_over + 1, mu, tabela)
         IN  [over |-> ONE - prob_under_target, push |-> 0, under |-> prob_under_target]

prob_meio_ponto(target_over, minutos_restantes, mu, tabela) ==
    IF target_over <= 0 THEN [over |-> ONE, push |-> 0, under |-> 0]
    ELSE IF minutos_restantes = 0 THEN [over |-> 0, push |-> 0, under |-> ONE]
    ELSE LET prob_under_target == soma_prob(target_over, mu, tabela)
         IN  [over |-> ONE - prob_under_target, push |-> 0, under |-> prob_under_target]

\* the `else:` (whole line) branch
prob_asiatica_sem_push(target_over, minutos_restantes, mu, tabela, atuais, linha) ==
    LET target_push == target_over IN
    IF minutos_restantes = 0 THEN [over |-> 0, push |-> 0, under |-> ONE]
    ELSE LET prob_push  == neg_binomial_prob(target_push, mu, tabela)
             prob_under == soma_prob(target_push, mu, tabela)
             prob_over  == ONE - prob_under
         IN  IF 2 * atuais > linha THEN [over |-> ONE, push |-> 0, under |-> 0]
             ELSE IF 2 * atuais = linha THEN [over |-> 0, push |-> ONE, under |-> 0]
             ELSE [over |-> prob_over, push |-> prob_push, under |-> prob_under]

prob_asiatica_sem_tempo(target_over, minutos_restantes, mu, tabela, atuais, linha) ==
    LET target_push == target_over
        prob_push  == neg_binomial_prob(target_push, mu, tabela)
        prob_under == soma_prob(target_push, mu, tabela)
        prob_over  == ONE - prob_push - prob_under
    IN  IF 2 * atuais > linha THEN [over |-> ONE, push |-> 0, under |-> 0]
        ELSE IF 2 * atuais = linha THEN [over |-> 0, push |-> ONE, under |-> 0]
        ELSE [over |-> prob_over, push |-> prob_push, under |-> prob_under]

prob_asiatica_under_inclusive(target_over, minutos_restantes, mu, tabela, atuais, linha) ==
    LET target_push == target_over IN
    IF minutos_restantes = 0 THEN [over |-> 0, push |-> 0, under |-> ONE]
    ELSE LET prob_push  == neg_binomial_prob(target_push, mu, tabela)
             prob_under == soma_prob(target_push + 1, mu, tabela)
             prob_over  == ONE - prob_push - prob_under
         IN  IF 2 * atuais > linha THEN [over |-> ONE, push |-> 0, under |-> 0]
             ELSE IF 2 * atuais = linha THEN [over |-> 0, push |-> ONE, under |-> 0]
             ELSE [over |-> prob_over, push |-> prob_push, under |-> prob_under]

prob_asiatica(target_over, minutos_restantes, mu, tabela, atuais, linha) ==
    LET target_push == target_over IN
    IF minutos_restantes = 0 THEN [over |-> 0, push |-> 0, under |-> ONE]
    ELSE LET prob_push  == neg_binomial_prob(target_push, mu, tabela)
             prob_under == soma_prob(target_push, mu, tabela)
             prob_over  == ONE - prob_push - prob_under
         IN  IF 2 * atuais > linha THEN [over |-> ONE, push |-> 0, under |-> 0]
             ELSE IF 2 * atuais = linha THEN [over |-> 0, push |-> ONE, under |-> 0]
             ELSE [over |-> prob_over, push |-> prob_push, under |-> prob_under]

\* ----------------------------------------------------------- expected value

calcular_ev_push_perde(prob, oddO, oddU) ==
    [over  |-> prob.over  * (oddO - 100) - (ONE - prob.over)  * 100,
     under |-> prob.under * (oddU - 100) - (ONE - prob.under) * 100]

calcular_ev(prob, oddO, oddU) ==
    [over  |-> prob.over  * (oddO - 100) - prob.under * 100,
     under |-> prob.under * (oddU - 100) - prob.over  * 100]

\* ------------------------------------------------------------- the core

calcular_ev_e_prob(minutos, atuais, linha, oddO, oddU, media_jogo, fs, tabela) ==
    LET restantes0 == TEMPO_TOTAL - minutos
        minutos_restantes == IF restantes0 <= 0 THEN 0 ELSE restantes0
        escanteios_projetados_restantes ==
            IF restantes0 <= 0 THEN 0
            ELSE calcular_lambda_restante_time_dependent(
                     minutos, media_jogo, fs[1], fs[2], fs[3], fs[4])
        is_half_line == (linha * 5) % 10 # 0
        target_over == (linha \div 2) + 1 - atuais
        prob == IF is_half_line
                THEN prob_meio_ponto(target_over, minutos_restantes,
                                     escanteios_projetados_restantes, tabela)
                ELSE prob_asiatica(target_over, minutos_restantes,
                                   escanteios_projetados_restantes, tabela,
                                   atuais, linha)
        ev == calcular_ev(prob, oddO, oddU)
    IN  [minutos_restantes |-> minutos_restantes,
         escanteios_projetados_restantes |-> escanteios_projetados_restantes,
         is_half_line |-> is_half_line,
         prob_over |-> prob.over,
         prob_push |-> prob.push,
         prob_under |-> prob.under,
         ev_over |-> ev.over,
         ev_under |-> ev.under,
         media_escanteios |-> media_jogo,
         fator_atual |-> get_temporal_factor(minutos, fs[1], fs[2], fs[3], fs[4])]

\* --------------------------------------------------- button-handler checks

\* the if/elif chain of the handler: the message shown, "" when all pass
Validacao(minutos, atuais, linha, oddO, oddU) ==
    IF minutos < 0 \/ minutos > 95 THEN "minutos"
    ELSE IF atuais < 0 THEN "escanteios"
    ELSE IF linha <= 0 THEN "linha"
    ELSE IF oddO <= 100 \/ oddU <= 100 THEN "odds"
    ELSE ""

\* --------------------------------------------------------- recommendation

\* the if/elif/else of the recommendation block: which message is shown
recomendar_sem_comparar(ev_over, ev_under) ==
    IF ev_over > LIMIAR_EV * ONE THEN "over"
    ELSE IF ev_under > LIMIAR_EV * ONE THEN "under"
    ELSE "evitar"

recomendar(ev_over, ev_under) ==
    IF ev_over > LIMIAR_EV * ONE /\ ev_over > ev_under THEN "over"
    ELSE IF ev_under > LIMIAR_EV * ONE /\ ev_under > ev_over THEN "under"
    ELSE "evitar"

\* ------------------------------------------------------------ input sets

RECURSIVE Massa(_, _)
Massa(f, n) == IF n < 0 THEN 0 ELSE f[n] + Massa(f, n - 1)

PmfSet == {f \in [0..MaxK -> 0..ONE] : Massa(f, MaxK) <= ONE}

\* pmf[MaxK] is read only for a negative escanteios_atuais; the tables that
\* vary it are left out
TabelasNucleo == {f \in PmfSet : f[MaxK] = 0}

FatoresPadrao == <<18, 22, 19, 24>>     \* 0.90, 1.10, 0.95, 1.20
FatoresSet == {FatoresPadrao, <<10, 10, 10, 10>>, <<30, 10, 20, 15>>}

MinutosAmostra == {0 - 1, 0, 45, 94, 95, MaxMinuto}

TabelaFixa == [k \in 0..MaxK |-> IF k = 0 THEN 1 ELSE IF k = 1 THEN ONE - 2 ELSE 0]

\* every combination of match state, line and mass function at the sampled
\* minutes
InitNucleo ==
    /\ pmf \in TabelasNucleo
    /\ minutos_jogados \in MinutosAmostra
    /\ escanteios_atuais \in (0 - 1)..MaxEscanteios
    /\ linha2 \in 0..MaxLinha2
    /\ odd_over \in {150, 190, 250}
    /\ odd_under = 300
    /\ media = 1000
    /\ fatores = FatoresPadrao

\* the same with a mean of 0, where the table is not consulted
InitSemMedia ==
    /\ pmf = TabelaFixa
    /\ minutos_jogados \in MinutosAmostra
    /\ escanteios_atuais \in (0 - 1)..MaxEscanteios
    /\ linha2 \in 0..MaxLinha2
    /\ odd_over \in {150, 190, 250}
    /\ odd_under = 300
    /\ media = 0
    /\ fatores = FatoresPadrao

\* every minute, several factor settings, means and odds
InitTaxa ==
    /\ minutos_jogados \in (0 - 1)..MaxMinuto
    /\ escanteios_atuais \in {0, MaxEscanteios}
    /\ linha2 \in {MaxLinha2 - 1, MaxLinha2}
    /\ odd_over \in {100, 190}
    /\ odd_under \in {100, 190}
    /\ media \in {0, 1000, 1376}
    /\ fatores \in FatoresSet
    /\ pmf = TabelaFixa

Init ==
    /\ InitNucleo \/ InitSemMedia \/ InitTaxa
    /\ pc = "idle"
    /\ erro = ""
    /\ resultados = << >>
    /\ recomendacao = ""

\* --------------------------------------------------------------- actions

\* the button is clicked: validation, then the core and the recommendation
BotaoRejeita ==
    /\ pc = "idle"
    /\ Validacao(minutos_jogados, escanteios_atuais, linha2, odd_over, odd_under) # ""
    /\ erro' = Validacao(minutos_jogados, escanteios_atuais, linha2, odd_over, odd_under)
    /\ pc' = "rejected"
    /\ UNCHANGED <<inputs, resultados, recomendacao>>

BotaoCalcula ==
    /\ pc = "idle"
    /\ Validacao(minutos_jogados, escanteios_atuais, linha2, odd_over, odd_under) = ""
    /\ resultados' = <<calcular_ev_e_prob(minutos_jogados, escanteios_atuais, linha2,
                                          odd_over, odd_under, media, fatores, pmf)>>
    /\ recomendacao' = recomendar(resultados'[1].ev_over, resultados'[1].ev_under)
    /\ pc' = "done"
    /\ UNCHANGED <<inputs, erro>>

Botao == BotaoRejeita \/ BotaoCalcula

\* the core is called with the arguments as they are
ChamadaDireta ==
    /\ pc = "idle"
    /\ resultados' = <<calcular_ev_e_prob(minutos_jogados, escanteios_atuais, linha2,
                                          odd_over, odd_under, media, fatores, pmf)>>
    /\ pc' = "done"
    /\ UNCHANGED <<inputs, erro, recomendacao>>

Next == Botao \/ ChamadaDireta

Spec == Init /\ [][Next]_vars

\* ------------------------------------------------------------ properties

R == resultados[1]
Feito == pc = "done"
Valido == Validacao(minutos_jogados, escanteios_atuais, linha2, odd_over, odd_under) = ""
PisoLinha == linha2 \div 2              \* floor(linha_over)
MeioPonto == linha2 % 2 = 1             \* fractional part 0.5
Alvo == PisoLinha + 1 - escanteios_atuais
TemTempo == minutos_jogados < TEMPO_TOTAL

\* the distribution of the remaining events for the returned mean
Dist == [k \in 0..MaxK |->
            IF R.escanteios_projetados_restantes = 0
            THEN (IF k = 0 THEN ONE ELSE 0)
            ELSE pmf[k]]

Maior(a, b) == IF a >= b THEN a ELSE b
\* how many minutes m with lo < m <= hi are still to be played
MinutosNaZona(lo, hi) == Maior(0, hi - Maior(minutos_jogados, lo))

\* C1: for every valid input, in every branch, the returned prob_over,
\* prob_push and prob_under add up to 1.
C1_SomaUm ==
    (Feito /\ Valido) => R.prob_over + R.prob_push + R.prob_under = ONE

C1_Witness ==
    /\ Feito /\ Valido /\ ~MeioPonto /\ TemTempo
    /\ R.prob_over > 0 /\ R.prob_push > 0 /\ R.prob_under > 0

\* C2: whenever escanteios_atuais > floor(linha_over), the result is
\* prob_over = 1, prob_push = 0, prob_under = 0, on both kinds of line and
\* at every minute 0..95.
C2_JaExcedida ==
    (Feito /\ Valido /\ escanteios_atuais > PisoLinha)
        => (R.prob_over = ONE /\ R.prob_push = 0 /\ R.prob_under = 0)

\* C3: on a whole line with escanteios_atuais equal to the line, the result
\* is prob_push = 1, prob_over = 0, prob_under = 0 at every minute 0..95.
C3_PushGarantido ==
    (Feito /\ Valido /\ ~MeioPonto /\ 2 * escanteios_atuais = linha2)
        => (R.prob_push = ONE /\ R.prob_over = 0 /\ R.prob_under = 0)

\* C4: when minutos_jogados >= 95 the result has minutos_restantes = 0 and
\* escanteios_projetados_restantes = 0, and for a line not exceeded by
\* escanteios_atuais it has prob_under = 1, prob_over = 0, prob_push = 0.
C4_FimDeJogo ==
    (Feito /\ minutos_jogados >= TEMPO_TOTAL)
        => /\ R.minutos_restantes = 0
           /\ R.escanteios_projetados_restantes = 0
           /\ (2 * escanteios_atuais <= linha2)
                 => (R.prob_under = ONE /\ R.prob_over = 0 /\ R.prob_push = 0)

C4_Witness ==
    /\ Feito /\ minutos_jogados > TEMPO_TOTAL /\ media > 0
    /\ ~MeioPonto /\ linha2 > 0 /\ 2 * escanteios_atuais = linha2
    /\ R.prob_under = ONE

\* C5: on a whole line with time remaining and escanteios_atuais below the
\* line, prob_push is the mass of exactly (linha_over - escanteios_atuais)
\* remaining events, prob_under the mass of fewer and prob_over the mass of
\* more.
C5_ParticaoLinhaInteira ==
    (Feito /\ Valido /\ ~MeioPonto /\ TemTempo /\ 2 * escanteios_atuais < linha2)
        => LET falta == PisoLinha - escanteios_atuais
           IN  /\ R.prob_push = Dist[falta]
               /\ R.prob_under = Massa(Dist, falta - 1)
               /\ R.prob_over = ONE - Massa(Dist, falta)

\* C6: for every valid input ev_over = prob_over * (odd_over - 1)
\* - (1 - prob_over - prob_push) and ev_under = prob_under * (odd_under - 1)
\* - (1 - prob_under - prob_push): a push is never counted as a loss.
C6_PushNaoPerde ==
    (Feito /\ Valido)
        => /\ R.ev_over = R.prob_over * (odd_over - 100)
                          - (ONE - R.prob_over - R.prob_push) * 100
           /\ R.ev_under = R.prob_under * (odd_under - 100)
                           - (ONE - R.prob_under - R.prob_push) * 100

C6_Witness ==
    /\ Feito /\ Valido /\ ~MeioPonto /\ TemTempo
    /\ R.prob_push > 0 /\ R.prob_push < ONE /\ R.prob_under > 0

\* C7: an input outside its domain (minutes outside 0..95, negative count,
\* line <= 0, an odd <= 1.0) never yields a result record.
C7_EntradaInvalidaSemResultado ==
    ~Valido => resultados = << >>

\* C8: for every valid input, in every branch, prob_over, prob_push and
\* prob_under each lie in [0, 1].
C8_Intervalo ==
    (Feito /\ Valido)
        => /\ R.prob_over \in 0..ONE
           /\ R.prob_push \in 0..ONE
           /\ R.prob_under \in 0..ONE

C8_Witness ==
    /\ Feito /\ Valido /\ ~MeioPonto /\ TemTempo /\ media > 0
    /\ 2 * escanteios_atuais < linha2
    /\ R.prob_over = 0 /\ R.prob_push > 0 /\ R.prob_under > 0

\* C9: for minutos_jogados in 0..94 the projected rate is the sum over the
\* minutes m with minutos_jogados < m <= 95 of (lambda_partida / 95) times
\* the weight of m's zone (1..35, 36..45, 46..80, 81..95), and the number of
\* summed minutes is minutos_restantes.
C9_SomaPorZona ==
    (Feito /\ minutos_jogados \in 0..(TEMPO_TOTAL - 1))
        => LET n1 == MinutosNaZona(0, 35)
               n2 == MinutosNaZona(35, 45)
               n3 == MinutosNaZona(45, 80)
               n4 == MinutosNaZona(80, 95)
           IN  /\ R.escanteios_projetados_restantes
                    = media * (n1 * fatores[1] + n2 * fatores[2]
                               + n3 * fatores[3] + n4 * fatores[4])
               /\ n1 + n2 + n3 + n4 = R.minutos_restantes

C9_Witness ==
    /\ Feito /\ Valido /\ minutos_jogados = 45 /\ media = 1000 /\ fatores = FatoresPadrao
    /\ R.escanteios_projetados_restantes = 1000 * (35 * 19 + 15 * 24)
    /\ R.minutos_restantes = 50

\* C10: on a half line with target_over > 0 and time remaining, prob_under
\* is the sum of P(X = k) for k = 0 .. target_over - 1, prob_over is
\* 1 - prob_under and prob_push is 0; prob_push is 0 on every half line.
C10_MeioPonto ==
    (Feito /\ Valido /\ MeioPonto)
        => /\ R.prob_push = 0
           /\ (Alvo > 0 /\ TemTempo)
                 => /\ R.prob_under = Massa(Dist, Alvo - 1)
                    /\ R.prob_over = ONE - R.prob_under

C10_Witness ==
    /\ Feito /\ Valido /\ MeioPonto /\ TemTempo /\ media > 0
    /\ Alvo >= 2 /\ pmf[Alvo] > 0 /\ pmf[Alvo - 1] > 0 /\ pmf[0] > 0
    /\ R.prob_under = pmf[0] + pmf[Alvo - 1]


\* C11: Over is recommended only when ev_over > 0.05 and ev_over > ev_under,
\* Under only when ev_under > 0.05 and ev_under > ev_over, otherwise no bet;
\* exactly one of the three messages is shown, and when neither EV exceeds
\* 0.05 it is the no-bet one.
C11_Recomendacao ==
    (Feito /\ recomendacao # "")
        => LET limiar == LIMIAR_EV * ONE
               over_ok  == R.ev_over > limiar /\ R.ev_over > R.ev_under
               under_ok == R.ev_under > limiar /\ R.ev_under > R.ev_over
           IN  /\ recomendacao \in {"over", "under", "evitar"}
               /\ (recomendacao = "over") <=> over_ok
               /\ (recomendacao = "under") <=> under_ok
               /\ (recomendacao = "evitar") <=> (~over_ok /\ ~under_ok)
               /\ (R.ev_over <= limiar /\ R.ev_under <= limiar)
                     => recomendacao = "evitar"

\* both EVs clear the threshold and the larger one, Under, is recommended
C11_Witness ==
    /\ Feito /\ recomendacao = "under"
    /\ R.ev_over > LIMIAR_EV * ONE /\ R.ev_under > R.ev_over

====
